---------------------------- MODULE Spec2Model ----------------------------
(***************************************************************************)
(* A model of aspy.py: the class aspaceRepo, a session client for the      *)
(* ArchivesSpace HTTP API.  One object holds the connection parameters,    *)
(* an optional session id and the connection record; connect,              *)
(* requestPost, repositoriesPost and subjectsPost are synchronous calls,   *)
(* each modelled as one action that takes the server's answer as input.    *)
(*                                                                         *)
(* Python values are tagged records [t, v].  A str is a sequence of        *)
(* tokens, each token an atomic run of characters; the tokens that JSON    *)
(* text is built from (quote, backslash, braces, separators) are tokens    *)
(* of their own, so json.dumps of a str is visibly different from the str. *)
(***************************************************************************)
EXTENDS Integers, Sequences, FiniteSets, TLC

(* ---------------------------- bounds ---------------------------------- *)

\* how many distinct session tokens the server may hand out
MaxTokens == 2
\* how many HTTP statuses other than 200, 403 and 400 the server may answer
MaxOtherStatuses == 1

(* ------------------------- Python values ------------------------------ *)

None == [t |-> "none", v |-> <<>>]
True == [t |-> "bool", v |-> <<"true">>]
Str(toks) == [t |-> "str", v |-> toks]
List(items) == [t |-> "list", v |-> items]
\* a dict is its items in insertion order, each <<key, value>>, key a token
Dict(items) == [t |-> "dict", v |-> items]
\* the state of an attribute that was never assigned (reading it raises)
Unset == [t |-> "unset", v |-> <<>>]

Return(value) == [kind |-> "return", value |-> value, exc |-> "-"]
Raise(exc) == [kind |-> "raise", value |-> None, exc |-> exc]

HasKey(d, key) == \E i \in 1..Len(d.v) : d.v[i][1] = key
Lookup(d, key) == d.v[CHOOSE i \in 1..Len(d.v) : d.v[i][1] = key][2]

\* obj[key] for a str key: only a dict holding the key yields a value
Subscript(obj, key) ==
    IF obj.t = "dict"
    THEN IF HasKey(obj, key) THEN Return(Lookup(obj, key)) ELSE Raise("KeyError")
    ELSE Raise("TypeError")

(* --------------------------- json.dumps ------------------------------- *)

\* a str's characters as they stand between the quotes of its JSON text:
\* a quote and a backslash each get a backslash in front (the str is
\* escaped half by half, the halves joined in order)
RECURSIVE Escape(_)
Escape(toks) ==
    IF Len(toks) = 0 THEN <<>>
    ELSE IF Len(toks) = 1
    THEN (CASE toks[1] = "\"" -> <<"\\", "\"">>
            [] toks[1] = "\\" -> <<"\\", "\\">>
            [] OTHER -> toks)
    ELSE LET half == Len(toks) \div 2
         IN  Escape(SubSeq(toks, 1, half)) \o Escape(SubSeq(toks, half + 1, Len(toks)))

RECURSIVE Serialize(_), SerializeItems(_), SerializePairs(_)
\* the text of a value, with json.dumps' default separators ", " and ": "
Serialize(x) ==
    CASE x.t = "none" -> <<"null">>
      [] x.t = "bool" -> x.v
      [] x.t = "str"  -> <<"\"">> \o Escape(x.v) \o <<"\"">>
      [] x.t = "list" -> <<"[">> \o SerializeItems(x.v) \o <<"]">>
      [] x.t = "dict" -> <<"{">> \o SerializePairs(x.v) \o <<"}">>
SerializeItems(items) ==
    IF items = <<>> THEN <<>>
    ELSE Serialize(Head(items))
         \o (IF Len(items) > 1 THEN <<", ">> ELSE <<>>)
         \o SerializeItems(Tail(items))
SerializePairs(items) ==
    IF items = <<>> THEN <<>>
    ELSE Serialize(Str(<<Head(items)[1]>>)) \o <<": ">> \o Serialize(Head(items)[2])
         \o (IF Len(items) > 1 THEN <<", ">> ELSE <<>>)
         \o SerializePairs(Tail(items))

\* json.dumps(x): a str holding the JSON text of x
dumps(x) == Str(Serialize(x))

(* ------------------------- the remote service ------------------------- *)

TokenNames == <<"abc123", "xyz789", "tok3", "tok4">>
Tokens == {TokenNames[i] : i \in 1..MaxTokens}
OtherStatusList == <<500, 404, 201, 302>>
OtherStatuses == {OtherStatusList[i] : i \in 1..MaxOtherStatuses}
Statuses == {200, 403, 400} \cup OtherStatuses

\* str(r.status_code)
StatusText(status) ==
    CASE status = 200 -> "200" [] status = 403 -> "403" [] status = 400 -> "400"
      [] status = 500 -> "500" [] status = 404 -> "404" [] status = 201 -> "201"
      [] status = 302 -> "302"

User(name) == Dict(<< <<"username", Str(<<name>>)>> >>)
\* the body of a successful login, as in the doctest of connect
LoginBody(tok) == Dict(<< <<"session", Str(<<tok>>)>>, <<"user", User("admin")>> >>)
\* bodies a service may also answer with: a session field of null, no
\* session field, no object at all, a created repository, an error report
NullSessionBody == Dict(<< <<"session", None>>, <<"user", User("admin")>> >>)
NoSessionBody == Dict(<< <<"user", User("admin")>> >>)
CreatedBody == Dict(<< <<"status", Str(<<"Created">>)>>,
                       <<"uri", Str(<<"/repositories/", "2">>)>> >>)
ErrorBody == Dict(<< <<"error", Str(<<"Login failed">>)>> >>)
Bodies == {LoginBody(tok) : tok \in Tokens}
          \cup {NullSessionBody, NoSessionBody, None, CreatedBody, ErrorBody}

\* r.json(): the value whose JSON text the response body is
json(text) == CHOOSE x \in Bodies : Serialize(x) = text

Unreachable == [reachable |-> FALSE, status |-> 0, text |-> <<>>]
Http(status, body) == [reachable |-> TRUE, status |-> status, text |-> Serialize(body)]
\* every answer requests.post can come back with: no answer at all, 200
\* with any of the bodies, any other status with an error report or (to
\* tell the status from the body) with the body of a successful login
Responses ==
    {Unreachable}
    \cup {Http(200, b) : b \in Bodies}
    \cup {Http(s, b) : s \in Statuses \ {200}, b \in {ErrorBody, LoginBody(TokenNames[1])}}

(* ------------------------------ state --------------------------------- *)

VARIABLES
    protocol, domain, port, username, password,  \* set once by __init__
    sessionId,      \* self.sessionId: None or the session field of a login
    connection,     \* self.connection: Unset until connect assigns it
    op,             \* the method called last ("__init__" after construction)
    args,           \* its arguments
    pre,            \* sessionId and connection when it was called
    requests,       \* the requests it handed to requests.post, in order
    response,       \* the answer to its request
    outcome,        \* how it ended: Return(value) or Raise(exception)
    logged          \* what it wrote with logging.error, in order

params == <<protocol, domain, port, username, password>>
vars == <<protocol, domain, port, username, password, sessionId, connection,
          op, args, pre, requests, response, outcome, logged>>

Protocols == {"http"}
Domains == {"localhost"}
Ports == {"8089"}
Usernames == {"admin", "archivist"}
Passwords == {"admin"}

\* aspaceRepo(protocol, domain, port, username, password)
Init ==
    /\ protocol \in Protocols
    /\ domain \in Domains
    /\ port \in Ports
    /\ username \in Usernames
    /\ password \in Passwords
    /\ sessionId = None
    /\ connection = Unset
    /\ op = "__init__"
    /\ args = <<>>
    /\ pre = [sessionId |-> None, connection |-> Unset]
    /\ requests = <<>>
    /\ response = Unreachable
    /\ outcome = Return(None)
    /\ logged = <<>>

(* ----------------------------- methods -------------------------------- *)

\* Template('$protocol://$domain:$port').substitute(...)
getHost == <<protocol, "://", domain, ":", port>>

\* the headers of a request: the session header once logged in, else ""
sessionHeader(sid) ==
    IF sid # None THEN Dict(<< <<"X-ArchivesSpace-Session", sid>> >>)
    ELSE Str(<<>>)

\* requestData without the json.dumps of the logged-in branch
requestDataAsGiven(sid, data) == data

\* the data of a request: JSON text once logged in, else the data as given
requestData(sid, data) ==
    IF sid # None THEN dumps(data) ELSE data

\* what requestPost passes to requests.post
postRequest(sid, path, data) ==
    [url |-> getHost \o path, data |-> requestData(sid, data),
     headers |-> sessionHeader(sid)]

\* postOutcome with the transport failure swallowed like an HTTP failure
postOutcomeSwallowed(r) ==
    IF r.reachable /\ r.status = 200 THEN Return(json(r.text)) ELSE Return(None)

\* how requestPost ends on the answer r
postOutcome(r) ==
    IF ~r.reachable THEN Raise("ConnectionError")
    ELSE IF r.status = 200 THEN Return(json(r.text))
    ELSE Return(None)

\* what requestPost logs on the answer r
postLogged(r) ==
    IF ~r.reachable
    THEN <<Str(<<"Unable to connect to ArchivesSpace. Check the host information.">>)>>
    ELSE IF r.status = 403
    THEN <<Str(<<"Forbidden -- check your credentials.">>), Str(r.text)>>
    ELSE IF r.status = 400
    THEN <<Str(<<"Bad Request -- Your request sucks.">>), Str(r.text)>>
    ELSE IF r.status = 200 THEN <<>>
    ELSE <<Str(<<StatusText(r.status)>>), Str(r.text)>>

\* the part of a call every method shares: one requestPost(path, data)
\* answered by r, recorded with the state the call started in
Call(name, arguments, path, data, r) ==
    /\ op' = name
    /\ args' = arguments
    /\ pre' = [sessionId |-> sessionId, connection |-> connection]
    /\ requests' = <<postRequest(sessionId, path, data)>>
    /\ response' = r
    /\ UNCHANGED params

\* repo.requestPost(path, data), called directly
PostPaths == {<<"/agents/people">>}
PostData == {Dict(<< <<"name", Str(<<"x">>)>> >>), Str(<<"say ", "\"", "hi", "\"">>)}
requestPost ==
    \E path \in PostPaths, data \in PostData, r \in Responses :
        /\ Call("requestPost", <<Str(path), data>>, path, data, r)
        /\ outcome' = postOutcome(r)
        /\ logged' = postLogged(r)
        /\ UNCHANGED <<sessionId, connection>>

\* the path and the data connect sends
loginPath == <<"/users/", username, "/login">>
loginData == Dict(<< <<"password", Str(<<password>>)>> >>)

\* loginSession reading the user field in place of the session field
loginSessionOfUser(jsonResponse) == Subscript(jsonResponse, "user")

\* jsonResponse['session']
loginSession(jsonResponse) == Subscript(jsonResponse, "session")

\* repo.connect()
connect ==
    \E r \in Responses :
        LET posted == postOutcome(r)
            session == loginSession(posted.value)
        IN  /\ Call("connect", <<>>, loginPath, loginData, r)
            /\ IF posted.kind = "raise"
               THEN /\ logged' = postLogged(r) \o <<Str(<<"Couldn't authenticate.">>)>>
                    /\ outcome' = Return(None)
                    /\ UNCHANGED <<sessionId, connection>>
               ELSE /\ logged' = postLogged(r)
                    /\ connection' = posted.value
                    /\ IF session.kind = "raise"
                       THEN /\ outcome' = Raise(session.exc)
                            /\ UNCHANGED sessionId
                       ELSE /\ outcome' = Return(None)
                            /\ sessionId' = session.value

\* repositoryData with the two arguments in each other's field
repositoryDataSwapped(repo_code, name) ==
    Dict(<< <<"jsonmodel_type", Str(<<"repository">>)>>,
            <<"repo_code", Str(<<name>>)>>,
            <<"name", Str(<<repo_code>>)>> >>)

\* the data repositoriesPost sends
repositoryData(repo_code, name) ==
    Dict(<< <<"jsonmodel_type", Str(<<"repository">>)>>,
            <<"repo_code", Str(<<repo_code>>)>>,
            <<"name", Str(<<name>>)>> >>)

RepoCodes == {"FOO1", "FOOBAR5"}
RepoNames == {"Test Repo"}

\* repo.repositoriesPost(repo_code, name)
repositoriesPost ==
    \E repo_code \in RepoCodes, name \in RepoNames, r \in Responses :
        /\ Call("repositoriesPost", <<Str(<<repo_code>>), Str(<<name>>)>>,
                <<"/repositories">>, repositoryData(repo_code, name), r)
        /\ outcome' = postOutcome(r)
        /\ logged' = postLogged(r)
        /\ UNCHANGED <<sessionId, connection>>

\* the dict subjectsPost builds
subjectDict ==
    Dict(<< <<"jsonmodel_type", Str(<<"subject">>)>>,
            <<"external_ids", List(<<>>)>>,
            <<"publish", True>>,
            <<"used_within_repositories", List(<<>>)>>,
            <<"used_within_published_repositories", List(<<>>)>>,
            <<"terms", List(<<Dict(<< <<"jsonmodel_type", Str(<<"term">>)>>,
                                      <<"term", Str(<<"Term 132">>)>>,
                                      <<"term_type", Str(<<"geographic">>)>>,
                                      <<"vocabulary", Str(<<"/vocabularies/156">>)>> >>)>>)>>,
            <<"external_documents", List(<<>>)>>,
            <<"vocabulary", Str(<<"/vocabularies/157">>)>>,
            <<"authority_id", Str(<<"http://www.example-596.com">>)>>,
            <<"scope_note", Str(<<"M911GA46">>)>>,
            <<"source", Str(<<"gmgpc">>)>> >>)

\* subjectData handed over as the dict, without the json.dumps
subjectDataAsDict == subjectDict

\* the data subjectsPost hands to requestPost
subjectData == dumps(subjectDict)

\* repo.subjectsPost()
subjectsPost ==
    \E r \in Responses :
        /\ Call("subjectsPost", <<>>, <<"/subjects">>, subjectData, r)
        /\ outcome' = postOutcome(r)
        /\ logged' = postLogged(r)
        /\ UNCHANGED <<sessionId, connection>>

Next == connect \/ requestPost \/ repositoriesPost \/ subjectsPost

Spec == Init /\ [][Next]_vars

(* ------------------------------ claims -------------------------------- *)

Called == op # "__init__"
Answered(status) == Called /\ response.reachable /\ response.status = status
LoggedIn == pre.sessionId # None
TheRequest == requests[1]
NoHeaders == Str(<<>>)
TokenHeader(tok) == Dict(<< <<"X-ArchivesSpace-Session", tok>> >>)
\* the payload the method called last builds for requestPost
Payload ==
    CASE op = "connect" -> Dict(<< <<"password", Str(<<password>>)>> >>)
      [] op = "requestPost" -> args[2]
      [] op = "repositoriesPost" ->
            Dict(<< <<"jsonmodel_type", Str(<<"repository">>)>>,
                    <<"repo_code", args[1]>>, <<"name", args[2]>> >>)
      [] op = "subjectsPost" -> Str(Serialize(subjectDict))

\* C1: whatever the login request ends in (transport failure, 403, 400, any
\* other non-200 status), connect returns nothing and does not raise.
C1_LoginAbsorbsFailure ==
    (op = "connect" /\ (~response.reachable \/ response.status # 200))
        => outcome = Return(None)

\* C2: after a login answered with 403 the session token and the connection
\* record are exactly what they were before the call.
C2_Login403LeavesState ==
    (op = "connect" /\ Answered(403))
        => sessionId = pre.sessionId /\ connection = pre.connection

\* C3: after a login answered with 200 and a JSON object holding a session
\* field, the connection record is the whole parsed answer and the session
\* token is its session field; with the doctest's answer the token is
\* "abc123" and the record's user.username is "admin".
C3_LoginStoresResponse ==
    /\ \A b \in Bodies :
        (op = "connect" /\ response = Http(200, b) /\ b.t = "dict" /\ HasKey(b, "session"))
            => (connection = b /\ sessionId = Lookup(b, "session") /\ outcome = Return(None))
    /\ (op = "connect" /\ response = Http(200, LoginBody("abc123")))
            => (sessionId = Str(<<"abc123">>)
                /\ Lookup(Lookup(connection, "user"), "username") = Str(<<"admin">>))
C3_Witness ==
    /\ op = "connect"
    /\ response = Http(200, LoginBody("abc123"))
    /\ pre.sessionId = None
    /\ sessionId = Str(<<"abc123">>)

\* C4: every request sent while a token is stored carries exactly that token
\* as the session header and the JSON text of the payload as its data; every
\* request sent while no token is stored carries no header and the payload
\* as given.
C4_TokenDecidesRequest ==
    Called =>
        /\ Len(requests) = 1
        /\ IF LoggedIn
           THEN /\ TheRequest.headers = TokenHeader(pre.sessionId)
                /\ TheRequest.data = Str(Serialize(Payload))
                /\ TheRequest.data # Payload
           ELSE /\ TheRequest.headers = NoHeaders
                /\ TheRequest.data = Payload
C4_Witness ==
    /\ op = "requestPost"
    /\ LoggedIn
    /\ args[2].t = "str"
    /\ TheRequest.headers = TokenHeader(Str(<<"xyz789">>))
    /\ TheRequest.data.v = <<"\"", "say ", "\\", "\"", "hi", "\\", "\"", "\"">>

\* C5: every connect, also one made after a login succeeded, sends its
\* request to /users/{username}/login with the password as given (not as
\* JSON text) and without a session header.
C5_LoginSentWithoutToken ==
    op = "connect" =>
        requests = << [url |-> <<protocol, "://", domain, ":", port,
                                 "/users/", username, "/login">>,
                       data |-> Dict(<< <<"password", Str(<<password>>)>> >>),
                       headers |-> NoHeaders] >>

\* C6: when the host cannot be reached, requestPost, repositoriesPost and
\* subjectsPost end with ConnectionError raised to the caller, connect
\* returns normally, and in each case token and record are unchanged.
C6_TransportFailure ==
    (Called /\ ~response.reachable) =>
        /\ sessionId = pre.sessionId
        /\ connection = pre.connection
        /\ outcome = IF op = "connect" THEN Return(None) ELSE Raise("ConnectionError")
C6_Witness ==
    /\ op = "subjectsPost"
    /\ ~response.reachable
    /\ LoggedIn
    /\ outcome = Raise("ConnectionError")

\* C7: repositoriesPost(code, name) sends one request, to /repositories,
\* whose payload is jsonmodel_type="repository", repo_code=code, name=name,
\* and returns the parsed body on 200 and nothing, without raising, on any
\* other status.
C7_RepositoriesPost ==
    op = "repositoriesPost" =>
        /\ Len(requests) = 1
        /\ TheRequest.url = <<protocol, "://", domain, ":", port, "/repositories">>
        /\ TheRequest.data = IF LoggedIn THEN Str(Serialize(Payload)) ELSE Payload
        /\ \A b \in Bodies : response = Http(200, b) => outcome = Return(b)
        /\ \A s \in Statuses \ {200} : Answered(s) => outcome = Return(None)
C7_Witness ==
    /\ op = "repositoriesPost"
    /\ args = <<Str(<<"FOO1">>), Str(<<"Test Repo">>)>>
    /\ response = Http(200, CreatedBody)
    /\ outcome = Return(CreatedBody)
    /\ LoggedIn
    /\ SubSeq(TheRequest.data.v, 1, 5) = <<"{", "\"", "jsonmodel_type", "\"", ": ">>

\* C8: the token goes from unset to set only in a connect answered with
\* 200, and once set it is never unset again.
C8_TokenLifecycle ==
    [][ /\ (sessionId = None /\ sessionId' # None)
            => (op' = "connect" /\ response'.reachable /\ response'.status = 200)
        /\ sessionId # None => sessionId' # None ]_vars

\* C9: the data subjectsPost sends is the JSON text of the JSON text of its
\* dict when a token is set and the JSON text of the dict when none is set;
\* the data repositoriesPost sends with a token set is the JSON text of its
\* dict, serialized once.
C9_SubjectSerializedTwice ==
    /\ op = "subjectsPost" =>
        /\ TheRequest.data = IF LoggedIn
                             THEN Str(Serialize(Str(Serialize(subjectDict))))
                             ELSE Str(Serialize(subjectDict))
        /\ TheRequest.data.v[1] = IF LoggedIn THEN "\"" ELSE "{"
    /\ (op = "repositoriesPost" /\ LoggedIn) =>
        /\ TheRequest.data = Str(Serialize(Payload))
        /\ TheRequest.data.v[1] = "{"
C9_Witness ==
    /\ op = "subjectsPost"
    /\ LoggedIn
    /\ SubSeq(TheRequest.data.v, 1, 6) = <<"\"", "{", "\\", "\"", "jsonmodel_type", "\\">>

\* C10: whenever the token is set, the connection record is the parsed
\* answer of a successful login and its session field is the stored token.
C10_RecordMatchesToken ==
    sessionId # None =>
        /\ connection.t = "dict"
        /\ HasKey(connection, "session")
        /\ Lookup(connection, "session") = sessionId

=============================================================================
